---------------------------- MODULE Spec2Model ----------------------------
(***************************************************************************)
(* Model of draw_graph.draw_line (src/draw_graph.py) and of the demo loop  *)
(* (src/_.py).                                                             *)
(*                                                                         *)
(* Arithmetic.  Python computes with floats; the model computes with exact *)
(* fixed-point numbers: a real quantity q (a coordinate, a length, a unit  *)
(* vector component) is the integer q * Scale.  The inputs are drawn from  *)
(* a domain on which every value the code computes is a multiple of        *)
(* 1/Scale (segments whose length is a whole number of pixels: axis        *)
(* aligned, or multiples of the 3-4-5 triangle), so no rounding happens    *)
(* in the model.  Integer parameters of draw_line (thickness, arrow_size,  *)
(* offset_start, offset_end, label_offset_x, label_offset_y) are plain     *)
(* integers, as in the signature.                                          *)
(***************************************************************************)
EXTENDS Integers, Sequences, FiniteSets

VARIABLES
    args,       \* the arguments of the draw_line call (and what FONT.render will do)
    outcome,    \* "called": draw_line not run yet; "returned"; "raised"
    locals,     \* the local variables of draw_line at the end of the call
    calls,      \* the drawing calls issued on surface, in order
    demo_pc,    \* position of the demo script
    running,    \* the demo's variable running
    events,     \* events of the current pygame.event.get() batch not handled yet
    screen,     \* <<width, height>> of the demo's screen surface
    frame,      \* drawing calls of the demo in the current frame, in order
    flips       \* number of pygame.display.flip() calls so far

vars == <<args, outcome, locals, calls, demo_pc, running, events, screen, frame, flips>>
lineVars == <<args, outcome, locals, calls>>
demoVars == <<demo_pc, running, events, screen, frame, flips>>

\* one pixel, in fixed-point units
Scale == 2 * 100

\* largest offset_start / offset_end drawn for a call
MaxOffset == 3

Abs(x) == IF x < 0 THEN -x ELSE x

\* product of two fixed-point numbers
Mul(u, v) == (u * v) \div Scale

RECURSIVE SqrtIter(_, _)
SqrtIter(n, x) ==
    LET y == (x + (n \div x)) \div 2
    IN  IF y >= x THEN x ELSE SqrtIter(n, y)

\* square root (exact on the squares the model's inputs produce)
Sqrt(n) == IF n = 0 THEN 0 ELSE SqrtIter(n, n)

\* math.hypot
Hypot(x, y) == Sqrt(x * x + y * y)

(***************************************************************************)
(* draw_line                                                               *)
(***************************************************************************)

\* str(label): the text of a label value
Str(label) == label.v

\* truth value of a label in "if label and FONT"
Truthy(label) ==
    CASE label.t = "None" -> FALSE
      [] label.t = "str"  -> label.v # ""
      [] label.t = "int"  -> label.v # "0"
      [] OTHER            -> TRUE

\* str(label) raises (an object whose __str__ raises)
StrRaises(label) == label.t = "badobj"

Dx(a) == a.end_pos[1] - a.start_pos[1]
Dy(a) == a.end_pos[2] - a.start_pos[2]
Length(a) == Hypot(Dx(a), Dy(a))

UnitV(a) == <<(Dx(a) * Scale) \div Length(a), (Dy(a) * Scale) \div Length(a)>>

FinalPointEnd(a) ==
    << a.end_pos[1] - Mul(UnitV(a)[1], a.offset_end * Scale),
       a.end_pos[2] - Mul(UnitV(a)[2], a.offset_end * Scale) >>

FinalPointStart(a) ==
    << a.start_pos[1] + Mul(UnitV(a)[1], a.offset_start * Scale),
       a.start_pos[2] + Mul(UnitV(a)[2], a.offset_start * Scale) >>

\* arrow_size*0.8
ArrowMargin(a) == (a.arrow_size * 8 * Scale) \div 10

OffsetLineEnd(a) ==
    a.offset_end * Scale
      + (IF a.arrow_type \in {"SINGLE", "DOUBLE"} THEN ArrowMargin(a) ELSE 0)

\* mutant: the start margin is added to the wrong offset
OffsetLineStart_FromEndOffset(a) ==
    a.offset_end * Scale
      + (IF a.arrow_type = "DOUBLE" THEN ArrowMargin(a) ELSE 0)

OffsetLineStart(a) ==
    a.offset_start * Scale
      + (IF a.arrow_type = "DOUBLE" THEN ArrowMargin(a) ELSE 0)

LineStart(a) ==
    << a.start_pos[1] + Mul(UnitV(a)[1], OffsetLineStart(a)),
       a.start_pos[2] + Mul(UnitV(a)[2], OffsetLineStart(a)) >>

LineEnd(a) ==
    << a.end_pos[1] - Mul(UnitV(a)[1], OffsetLineEnd(a)),
       a.end_pos[2] - Mul(UnitV(a)[2], OffsetLineEnd(a)) >>

NewLength(a) ==
    Hypot(LineEnd(a)[1] - LineStart(a)[1], LineEnd(a)[2] - LineStart(a)[2])

\* mutant: the check is made on the distance between start_pos and end_pos
TooShort_OfLength(a) == Length(a) < a.thickness * Scale

\* mutant: a stem as long as thickness is skipped too
TooShort_OrEqual(a) == NewLength(a) <= a.thickness * Scale

\* "if new_length < thickness: return"
TooShort(a) == NewLength(a) < a.thickness * Scale

\* pygame.draw.line(surface, color, line_start, line_end, thickness)
StemCalls(a) ==
    << [op |-> "line", from |-> LineStart(a), to |-> LineEnd(a), width |-> a.thickness] >>

\* draw_arrow_head(pos, angle_rad, size): one polygon whose first vertex is pos;
\* the two other vertices are fixed by (angle_rad, size) and kept as that pair,
\* angle_rad being the line's angle ("angle") or the opposite one ("angle+pi")
DrawArrowHead(pos, angle_rad, size) ==
    [op |-> "polygon", tip |-> pos, angle |-> angle_rad, size |-> size]

\* mutant: the end arrowhead is put at the end of the stem
ArrowEndCalls_AtStemEnd(a) ==
    IF a.arrow_type \in {"SINGLE", "DOUBLE"}
    THEN << DrawArrowHead(LineEnd(a), "angle", a.arrow_size) >>
    ELSE << >>

ArrowEndCalls(a) ==
    IF a.arrow_type \in {"SINGLE", "DOUBLE"}
    THEN << DrawArrowHead(FinalPointEnd(a), "angle", a.arrow_size) >>
    ELSE << >>

ArrowStartCalls(a) ==
    IF a.arrow_type = "DOUBLE"
    THEN << DrawArrowHead(FinalPointStart(a), "angle+pi", a.arrow_size) >>
    ELSE << >>

\* mutant: rounding down instead of toward zero
IntOf_Floor(x) == x \div Scale

\* int(x) of a fixed-point number: truncation toward zero, a plain integer
IntOf(x) == IF x >= 0 THEN x \div Scale ELSE -((-x) \div Scale)

CenterX(a) == (LineStart(a)[1] + LineEnd(a)[1]) \div 2
CenterY(a) == (LineStart(a)[2] + LineEnd(a)[2]) \div 2

\* the label section is entered: "if label and FONT"
LabelWanted(a) == Truthy(a.label) /\ a.FONT

\* the text handed to FONT.render
LabelText(a) == IF StrRaises(a.label) THEN "?" ELSE Str(a.label)

\* FONT.render raises; nothing catches it
RenderRaises(a) == LabelWanted(a) /\ a.render_raises

\* text_rect.center = ...; surface.blit(text_surface, text_rect)
LabelCalls(a) ==
    IF LabelWanted(a) /\ ~RenderRaises(a)
    THEN << [op |-> "blit", text |-> LabelText(a),
             center |-> << IntOf(CenterX(a)) + a.label_offset_x,
                           IntOf(CenterY(a)) + a.label_offset_y >>] >>
    ELSE << >>

\* mutant: no early return for a zero-length segment
DrawCalls_NoZeroCheck(a) ==
    IF Length(a) = 0
    THEN << [op |-> "line", from |-> a.start_pos, to |-> a.end_pos, width |-> a.thickness] >>
    ELSE IF TooShort(a) THEN << >>
    ELSE StemCalls(a) \o ArrowEndCalls(a) \o ArrowStartCalls(a) \o LabelCalls(a)

\* mutant: the label is drawn before the stem and the arrowheads
DrawCalls_LabelFirst(a) ==
    IF Length(a) = 0 THEN << >>
    ELSE IF TooShort(a) THEN << >>
    ELSE LabelCalls(a) \o StemCalls(a) \o ArrowEndCalls(a) \o ArrowStartCalls(a)

\* the drawing calls of one draw_line call, in the order they are issued
DrawCalls(a) ==
    IF Length(a) = 0 THEN << >>
    ELSE IF TooShort(a) THEN << >>
    ELSE StemCalls(a) \o ArrowEndCalls(a) \o ArrowStartCalls(a) \o LabelCalls(a)

\* how the call ends
Outcome(a) ==
    IF Length(a) = 0 THEN "returned"
    ELSE IF TooShort(a) THEN "returned"
    ELSE IF RenderRaises(a) THEN "raised"
    ELSE "returned"

NoPoint == <<0, 0>>

\* the locals of draw_line when it ends; stage tells how far the call got
Locals(a) ==
    IF Length(a) = 0
    THEN [stage |-> "zero_length", length |-> 0,
          final_point_start |-> NoPoint, final_point_end |-> NoPoint,
          line_start |-> NoPoint, line_end |-> NoPoint, new_length |-> 0]
    ELSE [stage |-> IF TooShort(a) THEN "too_short" ELSE "drawn",
          length |-> Length(a),
          final_point_start |-> FinalPointStart(a),
          final_point_end |-> FinalPointEnd(a),
          line_start |-> LineStart(a), line_end |-> LineEnd(a),
          new_length |-> NewLength(a)]

(***************************************************************************)
(* Inputs of draw_line                                                     *)
(***************************************************************************)
Px(x2, y2) == <<(x2 * Scale) \div 2, (y2 * Scale) \div 2>>   \* a point given in half pixels

StartPoints == { Px(-15, 5), Px(7, -21) }

\* end_pos - start_pos, in whole pixels
Vectors == { <<0, 0>>, <<10, 0>>, <<0, -5>>, <<3, 4>>, <<-24, 32>> }

ArrowTypes == {"NONE", "SINGLE", "DOUBLE"}
Thicknesses == {1, 6}
ArrowSizes == {5, 18}
Offsets == 0 .. MaxOffset
LabelOffsets == { <<0, 0>>, <<3, -10>> }

\* label values: None, "", "A-B", 12, and an object whose __str__ raises
NoneLabel == [t |-> "None", v |-> ""]
EmptyLabel == [t |-> "str", v |-> ""]
TextLabel == [t |-> "str", v |-> "A-B"]
IntLabel == [t |-> "int", v |-> "12"]
BadLabel == [t |-> "badobj", v |-> ""]

\* <<label, FONT is a font (not None), FONT.render raises>>
LabelCases ==
    { <<NoneLabel, TRUE, FALSE>>, <<EmptyLabel, TRUE, FALSE>>,
      <<TextLabel, TRUE, FALSE>>, <<TextLabel, TRUE, TRUE>>, <<TextLabel, FALSE, FALSE>>,
      <<IntLabel, TRUE, FALSE>>, <<BadLabel, TRUE, FALSE>>, <<BadLabel, TRUE, TRUE>> }

Args ==
    { [start_pos |-> s, end_pos |-> <<s[1] + d[1] * Scale, s[2] + d[2] * Scale>>,
       thickness |-> th, arrow_type |-> at, arrow_size |-> as,
       offset_start |-> os, offset_end |-> oe,
       label |-> lc[1], FONT |-> lc[2], render_raises |-> lc[3],
       label_offset_x |-> lo[1], label_offset_y |-> lo[2]] :
         s \in StartPoints, d \in Vectors, th \in Thicknesses, at \in ArrowTypes,
         as \in ArrowSizes, os \in Offsets, oe \in Offsets, lc \in LabelCases,
         lo \in LabelOffsets }

NoLocals ==
    [stage |-> "none", length |-> 0,
     final_point_start |-> NoPoint, final_point_end |-> NoPoint,
     line_start |-> NoPoint, line_end |-> NoPoint, new_length |-> 0]

\* the demo's first call of draw_line (line 60), on the initial 400x300 screen
DemoArgs ==
    [start_pos |-> Px(200, 150), end_pos |-> Px(400, 450),
     thickness |-> 6, arrow_type |-> "SINGLE", arrow_size |-> 18,
     offset_start |-> 15, offset_end |-> 15,
     label |-> [t |-> "str", v |-> "1-2"], FONT |-> TRUE, render_raises |-> FALSE,
     label_offset_x |-> 0, label_offset_y |-> 0]

\* the demo script is not running
DemoIdle ==
    /\ demo_pc = "not_started"
    /\ running = TRUE
    /\ events = << >>
    /\ screen = <<400, 300>>
    /\ frame = << >>
    /\ flips = 0

\* no draw_line call is under examination
LineIdle ==
    /\ args = DemoArgs
    /\ outcome = "idle"
    /\ locals = NoLocals
    /\ calls = << >>

Init ==
    /\ args \in Args
    /\ outcome = "called"
    /\ locals = NoLocals
    /\ calls = << >>
    /\ DemoIdle

\* one call of draw_line, from its first line to its return or its exception
DrawLine ==
    /\ outcome = "called"
    /\ outcome' = Outcome(args)
    /\ locals' = Locals(args)
    /\ calls' = DrawCalls(args)
    /\ UNCHANGED <<args, demoVars>>

Next == DrawLine

Spec == Init /\ [][Next]_vars

(***************************************************************************)
(* The demo script                                                         *)
(***************************************************************************)

\* largest number of events one pygame.event.get() returns
MaxEvents == 3

Quit == [type |-> "QUIT", w |-> 0, h |-> 0]
Resize(w, h) == [type |-> "VIDEORESIZE", w |-> w, h |-> h]
KeyDown == [type |-> "KEYDOWN", w |-> 0, h |-> 0]

EventKinds == { Quit, KeyDown, Resize(800, 600), Resize(201, 99), Resize(640, 480) }

EventBatches == UNION { [1 .. n -> EventKinds] : n \in 0 .. MaxEvents }

\* the names module draw_graph defines
DrawGraphNames == {"pygame", "math", "Enum", "ArrowType", "draw_line"}

\* the calls of a frame that runs to its end (lines 53 to 63)
FullFrame ==
    << "fill", "draw_circle", "draw_circle", "draw_circle",
       "draw_line", "draw_line", "draw_line", "flip" >>

DemoInit ==
    /\ demo_pc = "loop_test"
    /\ running = TRUE
    /\ events = << >>
    /\ screen = <<400, 300>>
    /\ frame = << >>
    /\ flips = 0
    /\ LineIdle

\* "while running:" and the pygame.event.get() of the for loop; pygame.quit()
\* when running is False
LoopTest ==
    /\ demo_pc = "loop_test"
    /\ IF running
       THEN \E batch \in EventBatches : events' = batch /\ demo_pc' = "events"
       ELSE events' = events /\ demo_pc' = "exited"
    /\ UNCHANGED <<running, screen, frame, flips, lineVars>>

\* one iteration of "for event in pygame.event.get():"
HandleEvent ==
    /\ demo_pc = "events"
    /\ events # << >>
    /\ running' = IF Head(events).type = "QUIT" THEN FALSE ELSE running
    /\ screen' = IF Head(events).type = "VIDEORESIZE"
                 THEN <<Head(events).w, Head(events).h>> ELSE screen
    /\ events' = Tail(events)
    /\ UNCHANGED <<demo_pc, frame, flips, lineVars>>

\* the rest of the loop body, lines 53 to 64: screen.fill, the positions, then
\* dg.draw_circle, an attribute lookup in module draw_graph: when the name is not
\* defined there AttributeError is raised, nothing catches it and the script ends
DrawFrame ==
    /\ demo_pc = "events"
    /\ events = << >>
    /\ IF "draw_circle" \in DrawGraphNames
       THEN /\ frame' = FullFrame
            /\ flips' = flips + 1
            /\ demo_pc' = "loop_test"
       ELSE /\ frame' = << "fill" >>
            /\ flips' = flips
            /\ demo_pc' = "crashed"
    /\ UNCHANGED <<running, events, screen, lineVars>>

DemoNext == LoopTest \/ HandleEvent \/ DrawFrame

DemoSpec == DemoInit /\ [][DemoNext]_vars

(***************************************************************************)
(* Properties.  They read the state (args, locals, calls, outcome) and do  *)
(* their own arithmetic on it.                                             *)
(***************************************************************************)

\* draw_line has run
Done == outcome \in {"returned", "raised"}

\* the geometry of sections 1 and 2 has been computed (length was not 0)
Computed == locals.stage \in {"too_short", "drawn"}

Indices(op) == { i \in DOMAIN calls : calls[i].op = op }
Count(op) == Cardinality(Indices(op))

Sq(x) == x * x
Dist2(p, q) == Sq(q[1] - p[1]) + Sq(q[2] - p[2])
Dot(p, q) == p[1] * q[1] + p[2] * q[2]
Cross(p, q) == p[1] * q[2] - p[2] * q[1]
Minus(p, q) == <<p[1] - q[1], p[2] - q[2]>>

\* the vector from start_pos to end_pos
Dir == Minus(args.end_pos, args.start_pos)

\* p lies on the line through start_pos and end_pos
OnLine(p) == Cross(Minus(p, args.start_pos), Dir) = 0

\* p lies on the segment, at a distance > 0 and < length from start_pos
StrictlyBetween(p) ==
    /\ OnLine(p)
    /\ Dot(Minus(p, args.start_pos), Dir) > 0
    /\ Dot(Minus(p, args.start_pos), Dir) < Dot(Dir, Dir)

\* p is from moved by k pixels along the line, toward end_pos (sign = 1) or
\* toward start_pos (sign = -1)
MovedAlong(p, from, k, sign) ==
    /\ OnLine(p)
    /\ Dist2(from, p) = Sq(k * Scale)
    /\ k # 0 => sign * Dot(Minus(p, from), Dir) > 0

\* the squared length of the stem between line_start and line_end
StemLen2 == Dist2(locals.line_start, locals.line_end)
Thick2 == Sq(args.thickness * Scale)

\* C1: for distinct points and positive offsets and arrow size, in every arrow
\* mode, line_start and line_end lie strictly between start_pos and end_pos
C1_StemStrictlyBetween ==
    (Computed /\ args.offset_start > 0 /\ args.offset_end > 0 /\ args.arrow_size > 0)
        => StrictlyBetween(locals.line_start) /\ StrictlyBetween(locals.line_end)

\* C2: when start_pos = end_pos, draw_line returns without an error and issues
\* no drawing call, whatever the arrow mode, the offsets and the label
C2_ZeroLengthNoDraw ==
    (Done /\ args.start_pos = args.end_pos)
        => outcome = "returned" /\ calls = << >>

C2_Witness ==
    /\ Done /\ args.start_pos = args.end_pos
    /\ args.arrow_type = "DOUBLE" /\ args.label = TextLabel /\ args.FONT
    /\ args.render_raises /\ args.offset_start # args.offset_end

\* C3: when the stem between line_start and line_end is shorter than thickness,
\* draw_line returns without an error and issues no drawing call
C3_ShortStemSkipped ==
    (Done /\ Computed /\ StemLen2 < Thick2)
        => outcome = "returned" /\ calls = << >>

C3_Witness ==
    /\ Done /\ Computed /\ StemLen2 < Thick2
    /\ args.arrow_type = "DOUBLE" /\ args.label = TextLabel /\ args.FONT
    /\ args.render_raises

\* C4: in DOUBLE mode the stem stops 0.8 * arrow_size short of both tip points,
\* on the inner side of each, whatever the two offsets
C4_DoubleShortensBothEnds ==
    (Computed /\ args.arrow_type = "DOUBLE")
        => /\ 25 * Dist2(locals.final_point_start, locals.line_start)
                = 16 * Sq(args.arrow_size * Scale)
           /\ 25 * Dist2(locals.final_point_end, locals.line_end)
                = 16 * Sq(args.arrow_size * Scale)
           /\ Dot(Minus(locals.line_start, locals.final_point_start), Dir) > 0
           /\ Dot(Minus(locals.line_end, locals.final_point_end), Dir) < 0
           /\ MovedAlong(locals.final_point_start, args.start_pos, args.offset_start, 1)
           /\ MovedAlong(locals.final_point_end, args.end_pos, args.offset_end, -1)

C4_Witness ==
    /\ locals.stage = "drawn" /\ args.arrow_type = "DOUBLE"
    /\ args.offset_start > args.offset_end /\ args.offset_end > 0
    /\ Count("polygon") = 2

\* twice the midpoint of the stem, and twice a label centre, in fixed-point units
TwiceMid == << locals.line_start[1] + locals.line_end[1],
               locals.line_start[2] + locals.line_end[2] >>
TwiceCentre(c) == << 2 * Scale * (c.center[1] - args.label_offset_x),
                     2 * Scale * (c.center[2] - args.label_offset_y) >>

\* n is m truncated toward zero to a whole number of pixels (m given doubled)
TruncOf(n, twice_m) ==
    /\ Abs(2 * Scale * n) <= Abs(twice_m)
    /\ Abs(twice_m - 2 * Scale * n) < 2 * Scale
    /\ n * twice_m >= 0

\* C5 as stated: the centre of the label rectangle is the midpoint of the stem
\* plus (label_offset_x, label_offset_y)
C5_LabelAtMidpoint ==
    \A i \in Indices("blit") : TwiceCentre(calls[i]) = TwiceMid

\* C5 amended: the centre of the label rectangle is the midpoint of the stem with
\* each coordinate truncated toward zero, plus (label_offset_x, label_offset_y)
C5_LabelAtTruncatedMidpoint ==
    \A i \in Indices("blit") :
        /\ TruncOf(calls[i].center[1] - args.label_offset_x, TwiceMid[1])
        /\ TruncOf(calls[i].center[2] - args.label_offset_y, TwiceMid[2])

C5_Witness ==
    \E i \in Indices("blit") :
        /\ TwiceMid[1] < 0 /\ TwiceMid[1] % (2 * Scale) # 0
        /\ TwiceMid[2] > 0 /\ TwiceMid[2] % (2 * Scale) # 0
        /\ args.label_offset_x # 0

\* a label is given and the label section is reached
LabelGiven == Done /\ locals.stage = "drawn" /\ Truthy(args.label) /\ args.FONT

\* C6: when a label is given and converting it to text or rendering it fails,
\* draw_line raises nothing and a "?" label is drawn
C6_LabelFailuresSwallowed ==
    (LabelGiven /\ (StrRaises(args.label) \/ args.render_raises))
        => /\ outcome = "returned"
           /\ Count("blit") = 1
           /\ \A i \in Indices("blit") : calls[i].text = "?"

TipAtEnd(c) == MovedAlong(c.tip, args.end_pos, args.offset_end, -1)
TipAtStart(c) == MovedAlong(c.tip, args.start_pos, args.offset_start, 1)

C8_ArrowheadsFollowMode ==
    (Done /\ Count("line") = 1)
        => /\ args.arrow_type = "NONE" => Count("polygon") = 0
           /\ args.arrow_type = "SINGLE"
                => /\ Count("polygon") = 1
                   /\ \A i \in Indices("polygon") :
                          TipAtEnd(calls[i]) /\ calls[i].angle = "angle"
           /\ args.arrow_type = "DOUBLE"
                => /\ Count("polygon") = 2
                   /\ \E i, j \in Indices("polygon") :
                          /\ i # j
                          /\ TipAtEnd(calls[i]) /\ calls[i].angle = "angle"
                          /\ TipAtStart(calls[j]) /\ calls[j].angle = "angle+pi"

C8_Witness ==
    /\ Done /\ Count("line") = 1 /\ args.arrow_type = "DOUBLE"
    /\ Count("polygon") = 2
    /\ args.offset_start > 0 /\ args.offset_end > args.offset_start

\* place of a drawing call in the order stem, end arrowhead, start arrowhead, label
Rank(c) ==
    CASE c.op = "line" -> 1
      [] c.op = "polygon" -> IF c.angle = "angle" THEN 2 ELSE 3
      [] c.op = "blit" -> 4

\* C10: the drawing calls of one draw_line call come in the order stem, end
\* arrowhead, start arrowhead, label, each at most once, and none without the
\* stem before it
C10_DrawOrder ==
    /\ \A i, j \in DOMAIN calls : i < j => Rank(calls[i]) < Rank(calls[j])
    /\ calls # << >> => calls[1].op = "line"

C10_Witness ==
    /\ Len(calls) = 4
    /\ calls[2].op = "polygon" /\ calls[3].op = "polygon" /\ calls[4].op = "blit"

\* C9: unless the loop has not drawn yet, the frame it last worked on is complete:
\* cleared, three nodes, three edges, flipped; and the script ends only by leaving
\* the loop after a QUIT event
C9_FrameCompleted ==
    /\ demo_pc \in {"loop_test", "crashed", "exited"}
          => frame = << >> \/ frame = FullFrame
    /\ demo_pc # "crashed"
    /\ demo_pc = "exited" => ~running

=============================================================================
